---- MODULE Spec2Model ----
(***************************************************************************)
(* Model of python/paddle/base/compiler.py: CompiledProgram._compile, the  *)
(* IpuStrategy option bag with its need_compile flag, the pass pipeline of *)
(* IpuCompiledProgram.compile and the patched ProgramCache.__getitem__.    *)
(***************************************************************************)
EXTENDS Integers, Sequences, FiniteSets, TLC

VARIABLES
    in_dynamic_mode,   \* paddle.in_dynamic_mode(), fixed for a session
    options,           \* IpuStrategy._ipu_strategy: option name -> value
    need_compile,      \* IpuStrategy.need_compile
    has_custom_ops,    \* IpuStrategy.has_custom_ops
    custom_op_names,   \* IpuStrategy.custom_op_names (a list)
    optimizer,         \* IpuStrategy._optimizer
    icp,               \* the IpuCompiledProgram instance
    program,           \* IpuCompiledProgram._program, the source program
    graph,             \* IpuCompiledProgram._graph
    passlog,           \* the pass applications of the last compile call
    caches,            \* ProgramCache._caches: fingerprint -> entry
    recent_key,        \* ProgramCache._recent_key
    cache_builds,      \* how often the patched getter has run the build
    threads,           \* callers inside the getter: position and locals
    patches,           \* ProgramCache.__getitem__, LRScheduler.step, patcher_cache
    built_under,       \* fingerprint -> the options (lr aside) its entry was built under
    cp,                \* the CompiledProgram instance: its attributes
    builds,            \* how often a CompiledProgram executor build was run
    ret                \* the last call: operation, arguments, outcome

strategyVars == <<options, need_compile, has_custom_ops, custom_op_names, optimizer>>
ipuVars == <<icp, program, graph, passlog>>
cpVars == <<cp, builds>>
cacheVars == <<caches, recent_key, cache_builds, threads, patches, built_under>>
vars == <<in_dynamic_mode, strategyVars, ipuVars, cacheVars, cpVars, ret>>

\* Python's None, where it stands for an absent name or object.
NoneV == "None"

\* The outcome of a call that returned normally.
NoRaise == "ok"

Ret(op, arg, raised, val) == [op |-> op, arg |-> arg, raised |-> raised, val |-> val]

(***************************************************************************)
(* Bounds of the model.                                                    *)
(***************************************************************************)
MaxCustomOps == 1
MaxOps == 2
MaxBuilds == 3
MaxRegistrations == 4

(***************************************************************************)
(* Operators of a block                                                    *)
(***************************************************************************)
Op(type, is_target) == [type |-> type, is_target |-> is_target]

\* global_block()._remove_op(index), indices counted from 1.
remove_op(ops, index) ==
    SubSeq(ops, 1, index - 1) \o SubSeq(ops, index + 1, Len(ops))

\* for index in need_to_remove_op_index[::-1]: global_block._remove_op(index)
RECURSIVE RemoveReversed(_, _)
RemoveReversed(ops, idx) ==
    IF idx = <<>> THEN ops
    ELSE RemoveReversed(remove_op(ops, idx[Len(idx)]), SubSeq(idx, 1, Len(idx) - 1))

(***************************************************************************)
(* CompiledProgram                                                         *)
(***************************************************************************)
\* self._executor = None
NoExecutor == <<"None", 0>>

\* self._program = None, for a CompiledProgram made from a raw Graph.
NoProgram == [is_none |-> TRUE, ops |-> <<>>, block_vars |-> <<>>]

\* A node of a graph as the scan of _compile_data_parallel sees it: is_var(),
\* var() is not None, var().persistable(), var().type() == RAW, name().
Node(is_var, has_var, persistable, raw, name) ==
    [is_var |-> is_var, has_var |-> has_var, persistable |-> persistable,
     raw |-> raw, name |-> name]

\* The indices of the feed operators, ascending.
RECURSIVE pop_idx(_, _)
pop_idx(ops, i) ==
    IF i > Len(ops) THEN <<>>
    ELSE IF ops[i].type = "feed" THEN <<i>> \o pop_idx(ops, i + 1)
    ELSE pop_idx(ops, i + 1)

\* A slip that removes the first feed operator only.
prune_feed_ops_FirstOnly(ops) ==
    IF pop_idx(ops, 1) = <<>> THEN ops ELSE remove_op(ops, pop_idx(ops, 1)[1])

\* _prune_feed_ops: for index in pop_idx[::-1]: _remove_op(index)
prune_feed_ops(ops) == RemoveReversed(ops, pop_idx(ops, 1))

\* The input kinds __init__ tells apart with isinstance.
IsGraph(program_or_graph) == program_or_graph.kind = "Graph"
IsProgram(program_or_graph) == program_or_graph.kind = "Program"

\* The attributes CompiledProgram.__init__ sets, for a Program or Graph.
CompiledProgram_init(share_vars_from) ==
    [scope |-> NoneV, place |-> NoneV, executor |-> NoExecutor, compiled |-> FALSE,
     is_inference |-> FALSE, infer_config |-> NoneV,
     share_vars_from |-> share_vars_from,
     graph |-> [ops |-> <<>>, nodes |-> <<>>], program |-> NoProgram,
     persistable_vars |-> <<>>]

\* No CompiledProgram object: before construction, and after a construction
\* that raised.
NoCompiledProgram == [constructed |-> FALSE]

\* A slip that takes any input for a Graph.
AcceptedInput_Any(program_or_graph) == TRUE

\* isinstance(program_or_graph, core.Graph) or
\* isinstance(program_or_graph, framework.Program); anything else raises.
AcceptedInput(program_or_graph) ==
    IsGraph(program_or_graph) \/ IsProgram(program_or_graph)

\* The object __init__ leaves: a Graph is kept as it is and no program is
\* recorded; a Program first loses its feed operators, then its graph is
\* built from what is left.
CompiledProgram_new(program_or_graph) ==
    IF IsProgram(program_or_graph)
      THEN LET pruned == prune_feed_ops(program_or_graph.ops)
           IN [CompiledProgram_init(NoneV) EXCEPT
                  !.graph = [ops |-> pruned, nodes |-> program_or_graph.nodes],
                  !.program = [is_none |-> FALSE, ops |-> pruned,
                               block_vars |-> program_or_graph.block_vars]]
      ELSE [CompiledProgram_init(NoneV) EXCEPT
               !.graph = [ops |-> program_or_graph.ops, nodes |-> program_or_graph.nodes]]

\* CompiledProgram(program_or_graph)
CompiledProgram_construct(program_or_graph) ==
    /\ cp = NoCompiledProgram
    /\ IF AcceptedInput(program_or_graph)
         THEN /\ cp' = CompiledProgram_new(program_or_graph)
              /\ ret' = Ret("CompiledProgram", program_or_graph, NoRaise, "self")
         ELSE /\ cp' = NoCompiledProgram
              /\ ret' = Ret("CompiledProgram", program_or_graph, "TypeError", NoneV)
    /\ UNCHANGED <<in_dynamic_mode, strategyVars, ipuVars, cacheVars, builds>>

\* isinstance(config, InferNativeConfig) or isinstance(config, InferAnalysisConfig)
IsInferConfig(config) == config \in {"NativeConfig", "AnalysisConfig"}

\* A slip that drops the first assertion and looks at the config only.
InferenceRejected_ConfigOnly(self, config) == ~IsInferConfig(config)

\* The two assertions of _with_inference_optimize: not yet compiled with
\* inference, and a config of one of the two predictor kinds.
InferenceRejected(self, config) ==
    self.is_inference \/ ~IsInferConfig(config)

\* _with_inference_optimize: both assertions, then the two assignments.
with_inference_optimize(config) ==
    /\ IF InferenceRejected(cp, config)
         THEN /\ ret' = Ret("_with_inference_optimize", config, "AssertionError", NoneV)
              /\ UNCHANGED cp
         ELSE /\ cp' = [cp EXCEPT !.is_inference = TRUE, !.infer_config = config]
              /\ ret' = Ret("_with_inference_optimize", config, NoRaise, "self")
    /\ UNCHANGED <<in_dynamic_mode, strategyVars, ipuVars, cacheVars, builds>>

\* _should_broadcast_or_not_exists: a name the block does not have, or one
\* whose variable is not distributed.
should_broadcast_or_not_exists(prog, var_name) ==
    IF var_name \notin DOMAIN prog.block_vars THEN TRUE
    ELSE ~prog.block_vars[var_name]

\* Lines 285-298: the names appended while scanning the nodes in the order
\* graph.nodes() yields them.
RECURSIVE scan_persistable(_, _)
scan_persistable(self, nodes) ==
    IF nodes = <<>> THEN <<>>
    ELSE LET node == Head(nodes)
             rest == scan_persistable(self, Tail(nodes))
         IN IF node.is_var /\ node.has_var /\ node.persistable /\ ~node.raw
                 /\ ~self.program.is_none
                 /\ should_broadcast_or_not_exists(self.program, node.name)
              THEN <<node.name>> \o rest
              ELSE rest

\* The names of the model in the order Python compares strings.
NameOrder == <<"ctrl", "emb", "fc_b", "fc_w", "mul", "rng", "x">>
Rank(name) == CHOOSE i \in DOMAIN NameOrder : NameOrder[i] = name
Before(a, b) == Rank(a) < Rank(b)

\* list(set(names)): every name once, here in the order of first occurrence.
RECURSIVE list_set(_)
list_set(names) ==
    IF names = <<>> THEN <<>>
    ELSE LET init == list_set(SubSeq(names, 1, Len(names) - 1))
             last == names[Len(names)]
         IN IF \E i \in DOMAIN init : init[i] = last THEN init ELSE Append(init, last)

RECURSIVE insert_sorted(_, _)
insert_sorted(name, sorted) ==
    IF sorted = <<>> THEN <<name>>
    ELSE IF Before(Head(sorted), name)
      THEN <<Head(sorted)>> \o insert_sorted(name, Tail(sorted))
      ELSE <<name>> \o sorted

\* A slip that leaves the list in the order the scan produced.
sort_Skipped(names) == names

\* self._persistable_vars.sort()
RECURSIVE sort(_)
sort(names) ==
    IF names = <<>> THEN <<>>
    ELSE insert_sorted(Head(names), sort(Tail(names)))

\* self._persistable_vars when _compile_data_parallel returns or raises: the
\* first two raises come before the scan, the place is converted (line 300)
\* between the scan and the sort, the capture check follows the sort.
persistable_vars_after(self, raised) ==
    IF raised \in {"ValueError", "AssertionError"} THEN self.persistable_vars
    ELSE IF raised = "TypeError" THEN scan_persistable(self, self.graph.nodes)
    ELSE sort(list_set(scan_persistable(self, self.graph.nodes)))

\* A slip that loses the capture check.
compile_data_parallel_NoCaptureCheck(self, scope, capturing) ==
    IF self.share_vars_from = "shared_without_executor" THEN "ValueError"
    ELSE IF self.share_vars_from = NoneV /\ scope = NoneV THEN "AssertionError"
    ELSE IF self.place = NoneV THEN "TypeError"
    ELSE NoRaise

\* _compile_data_parallel, as far as it can raise: a shared program that has
\* no executor, no scope without a shared program, a place that
\* core.Place.set_place does not take (None), CUDA graph capture.
compile_data_parallel(self, scope, capturing) ==
    IF self.share_vars_from = "shared_without_executor" THEN "ValueError"
    ELSE IF self.share_vars_from = NoneV /\ scope = NoneV THEN "AssertionError"
    ELSE IF self.place = NoneV THEN "TypeError"
    ELSE IF capturing THEN "RuntimeError"
    ELSE NoRaise

\* A slip that loses the early return of a compiled program.
AlreadyCompiled_Never(self) == FALSE

\* if self._compiled:
AlreadyCompiled(self) == self.compiled

\* A slip that checks the scope only.
RecompileCheck_ScopeOnly(self, scope, place) ==
    IF scope # NoneV /\ self.scope # scope THEN "ValueError" ELSE NoRaise

\* The checks of a repeated _compile: a scope or a place that is given and
\* is not the bound one raises (None._equals raises when no place is bound).
RecompileCheck(self, scope, place) ==
    IF scope # NoneV /\ self.scope # scope THEN "ValueError"
    ELSE IF place # NoneV /\ self.place = NoneV THEN "AttributeError"
    ELSE IF place # NoneV /\ self.place # place THEN "ValueError"
    ELSE NoRaise

\* CompiledProgram._compile(scope, place); capturing is what
\* core.is_cuda_graph_capturing() answers during the call.
compile_cp(scope, place, capturing) ==
    /\ IF AlreadyCompiled(cp)
         THEN /\ ret' = Ret("_compile", <<scope, place, TRUE, capturing>>, RecompileCheck(cp, scope, place),
                            IF RecompileCheck(cp, scope, place) = NoRaise THEN "self" ELSE NoneV)
              /\ UNCHANGED <<cp, builds>>
         ELSE LET bound == [cp EXCEPT !.compiled = TRUE, !.scope = scope, !.place = place]
                  raised == IF cp.is_inference THEN NoRaise
                            ELSE compile_data_parallel(bound, scope, capturing)
                  scanned == IF cp.is_inference THEN bound
                             ELSE [bound EXCEPT !.persistable_vars =
                                      persistable_vars_after(bound, raised)]
              IN /\ builds' = builds + 1
                 /\ cp' = IF raised = NoRaise
                            THEN [scanned EXCEPT !.executor =
                                     IF cp.is_inference THEN <<"PaddlePredictor", builds + 1>>
                                                        ELSE <<"CompiledProgram", builds + 1>>]
                            ELSE scanned
                 /\ ret' = Ret("_compile", <<scope, place, FALSE, capturing>>, raised,
                               IF raised = NoRaise THEN "self" ELSE NoneV)
    /\ UNCHANGED <<in_dynamic_mode, strategyVars, ipuVars, cacheVars>>

(***************************************************************************)
(* IpuDynamicPatcher: register_patch and release_patch                     *)
(***************************************************************************)
\* The methods as the classes define them, and the closures that
\* patch_program_cache and patch_lr_scheduler put in their place: one new
\* function per registration, closed over the registering strategy.
Original == [kind |-> "original", strategy |-> 0, nth |-> 0]
Patch(strategy, nth) == [kind |-> "patch", strategy |-> strategy, nth |-> nth]

Unpatched == [getitem |-> Original, step |-> Original, patcher_cache |-> <<>>]

\* old_getter = ProgramCache.__getitem__; ProgramCache.__getitem__ =
\* patch_getter; patcher_cache.append([ProgramCache, '__getitem__', old_getter])
patch_program_cache(p, ipu_strategy) ==
    [p EXCEPT !.getitem = Patch(ipu_strategy, Len(p.patcher_cache) + 1),
              !.patcher_cache = Append(@, [module |-> "ProgramCache", key |-> "__getitem__",
                                           attr |-> p.getitem])]

patch_lr_scheduler(p, ipu_strategy) ==
    [p EXCEPT !.step = Patch(ipu_strategy, Len(p.patcher_cache) + 1),
              !.patcher_cache = Append(@, [module |-> "LRScheduler", key |-> "step",
                                           attr |-> p.step])]

RegisterPatch(p, ipu_strategy) ==
    patch_lr_scheduler(patch_program_cache(p, ipu_strategy), ipu_strategy)

setattr(p, entry) ==
    IF entry.module = "ProgramCache" THEN [p EXCEPT !.getitem = entry.attr]
    ELSE [p EXCEPT !.step = entry.attr]

\* for module, key, attr in patcher_cache: setattr(module, key, attr), from
\* the first entry to the last; the list itself is left as it is.
RECURSIVE ReleaseFrom(_, _)
ReleaseFrom(p, i) ==
    IF i > Len(p.patcher_cache) THEN p
    ELSE ReleaseFrom(setattr(p, p.patcher_cache[i]), i + 1)

ReleasePatch(p) == ReleaseFrom(p, 1)

\* IpuStrategy.register_patch, called on the strategy instance ipu_strategy.
register_patch(ipu_strategy) ==
    /\ Len(patches.patcher_cache) < 2 * MaxRegistrations
    /\ patches' = RegisterPatch(patches, ipu_strategy)
    /\ ret' = Ret("register_patch", ipu_strategy, NoRaise, NoneV)
    /\ UNCHANGED <<in_dynamic_mode, strategyVars, ipuVars, cpVars,
                   caches, recent_key, cache_builds, threads, built_under>>

\* IpuStrategy.release_patch
release_patch ==
    /\ patches' = ReleasePatch(patches)
    /\ ret' = Ret("release_patch", Len(patches.patcher_cache), NoRaise, NoneV)
    /\ UNCHANGED <<in_dynamic_mode, strategyVars, ipuVars, cpVars,
                   caches, recent_key, cache_builds, threads, built_under>>

(***************************************************************************)
(* IpuStrategy                                                             *)
(***************************************************************************)
OptionKeys ==
    {"num_ipus", "is_training", "micro_batch_size", "enable_manual_shard",
     "enable_pipelining", "batches_per_step", "enable_gradient_accumulation",
     "accumulation_factor", "enable_fp16", "is_dynamic", "lr", "custom_ops"}

\* The option values of a fresh core.IpuStrategy(): the defaults that the
\* keyword arguments of the set_*_config methods repeat.
DefaultOptions ==
    [k \in OptionKeys |->
        CASE k = "num_ipus" -> 1
          [] k = "is_training" -> TRUE
          [] k = "micro_batch_size" -> 1
          [] k = "enable_manual_shard" -> FALSE
          [] k = "enable_pipelining" -> FALSE
          [] k = "batches_per_step" -> 1
          [] k = "enable_gradient_accumulation" -> FALSE
          [] k = "accumulation_factor" -> 1
          [] k = "enable_fp16" -> FALSE
          [] k = "is_dynamic" -> FALSE
          [] k = "lr" -> 1
          [] k = "custom_ops" -> {}]

\* core.IpuStrategy.set_options: every entry of the bag replaces the stored
\* value; a custom_op entry is added to the registered custom ops.
core_set_options(opts, bag) ==
    [k \in DOMAIN opts |->
        IF k = "custom_ops"
          THEN IF "custom_op" \in DOMAIN bag
                 THEN opts[k] \cup {bag["custom_op"]}
                 ELSE opts[k]
          ELSE IF k \in DOMAIN bag THEN bag[k] ELSE opts[k]]

\* No optimizer set on the strategy yet (the attribute _optimizer is absent).
NoOptimizer == [kind |-> "None", lr |-> 0]

recompile_white_list == {"lr"}

\* A slip that forgets the allow-list: any key at all forces a recompile.
NeedCompileAfter_NoWhiteList(need, keys) ==
    IF keys # {} THEN TRUE ELSE need

\* need_compile after set_options on a bag with these keys.
NeedCompileAfter(need, keys) ==
    IF keys \ recompile_white_list # {} THEN TRUE ELSE need

\* The body of IpuStrategy.set_options, which the set_*_config methods and
\* add_custom_op call with the bag they build.
do_set_options(bag) ==
    /\ options' = core_set_options(options, bag)
    /\ need_compile' = NeedCompileAfter(need_compile, DOMAIN bag)

set_options(bag) ==
    /\ do_set_options(bag)
    /\ ret' = Ret("set_options", DOMAIN bag, NoRaise, NoneV)
    /\ UNCHANGED <<in_dynamic_mode, cacheVars, cpVars, has_custom_ops, custom_op_names, optimizer, ipuVars>>

\* A slip that drops the check of set_graph_config.
ManualShardRejected_Never(num_ipus, enable_manual_shard) == FALSE

\* if num_ipus == 1 and enable_manual_shard: raise RuntimeError
ManualShardRejected(num_ipus, enable_manual_shard) ==
    num_ipus = 1 /\ enable_manual_shard

set_graph_config(num_ipus, is_training, micro_batch_size, enable_manual_shard) ==
    IF ManualShardRejected(num_ipus, enable_manual_shard)
      THEN /\ ret' = Ret("set_graph_config", <<num_ipus, enable_manual_shard>>, "RuntimeError", NoneV)
           /\ UNCHANGED <<in_dynamic_mode, cacheVars, cpVars, strategyVars, ipuVars>>
      ELSE LET bag == ("num_ipus" :> num_ipus) @@ ("is_training" :> is_training)
                      @@ ("micro_batch_size" :> micro_batch_size)
                      @@ ("enable_manual_shard" :> enable_manual_shard)
           IN /\ do_set_options(bag)
              /\ ret' = Ret("set_graph_config", <<num_ipus, enable_manual_shard>>, NoRaise, NoneV)
              /\ UNCHANGED <<in_dynamic_mode, cacheVars, cpVars, has_custom_ops, custom_op_names, optimizer, ipuVars>>

\* A slip that drops the check of set_pipelining_config.
PipeliningRejected_Never(manual_shard, enable_pipelining) == FALSE

\* enable_manual_shard = self.get_option('enable_manual_shard')
\* if not enable_manual_shard and enable_pipelining: raise RuntimeError
PipeliningRejected(manual_shard, enable_pipelining) ==
    ~manual_shard /\ enable_pipelining

set_pipelining_config(enable_pipelining, batches_per_step, enable_gradient_accumulation, accumulation_factor) ==
    LET args == <<enable_pipelining, batches_per_step, enable_gradient_accumulation, accumulation_factor>>
    IN IF PipeliningRejected(options["enable_manual_shard"], enable_pipelining)
         THEN /\ ret' = Ret("set_pipelining_config", args, "RuntimeError", NoneV)
              /\ UNCHANGED <<in_dynamic_mode, cacheVars, cpVars, strategyVars, ipuVars>>
         ELSE LET bag == ("enable_pipelining" :> enable_pipelining)
                         @@ ("batches_per_step" :> batches_per_step)
                         @@ ("enable_gradient_accumulation" :> enable_gradient_accumulation)
                         @@ ("accumulation_factor" :> accumulation_factor)
              IN /\ do_set_options(bag)
                 /\ ret' = Ret("set_pipelining_config", args, NoRaise, NoneV)
                 /\ UNCHANGED <<in_dynamic_mode, cacheVars, cpVars, has_custom_ops, custom_op_names, optimizer, ipuVars>>

set_precision_config(enable_fp16) ==
    LET bag == ("enable_fp16" :> enable_fp16)
    IN /\ do_set_options(bag)
       /\ ret' = Ret("set_precision_config", <<enable_fp16>>, NoRaise, NoneV)
       /\ UNCHANGED <<in_dynamic_mode, cacheVars, cpVars, has_custom_ops, custom_op_names, optimizer, ipuVars>>

add_custom_op(paddle_op) ==
    LET bag == ("custom_op" :> paddle_op)
    IN /\ Len(custom_op_names) < MaxCustomOps
       /\ do_set_options(bag)
       /\ custom_op_names' = Append(custom_op_names, paddle_op)
       /\ has_custom_ops' = TRUE
       /\ ret' = Ret("add_custom_op", paddle_op, NoRaise, NoneV)
       /\ UNCHANGED <<in_dynamic_mode, cacheVars, cpVars, optimizer, ipuVars>>

\* parse_optimizer: {"is_dynamic": True} plus what get_lr returns: the float
\* learning rate, the scheduler's current value, or None for any other kind
\* of learning rate (dict.update(None) then raises).
parse_optimizer(opt) ==
    IF opt.kind \in {"float", "LRScheduler"}
      THEN [raised |-> NoRaise, attrs |-> ("is_dynamic" :> TRUE) @@ ("lr" :> opt.lr)]
      ELSE [raised |-> "TypeError", attrs |-> ("is_dynamic" :> TRUE)]

set_optimizer(opt) ==
    IF in_dynamic_mode
      THEN LET parsed == parse_optimizer(opt)
           IN /\ optimizer' = opt
              /\ options' = IF parsed.raised = NoRaise
                              THEN core_set_options(options, parsed.attrs)
                              ELSE options
              /\ ret' = Ret("set_optimizer", opt, parsed.raised, NoneV)
              /\ UNCHANGED <<in_dynamic_mode, cacheVars, cpVars, need_compile, has_custom_ops, custom_op_names, ipuVars>>
      ELSE /\ ret' = Ret("set_optimizer", opt, "RuntimeError", NoneV)
           /\ UNCHANGED <<in_dynamic_mode, cacheVars, cpVars, strategyVars, ipuVars>>

(***************************************************************************)
(* IpuCompiledProgram                                                      *)
(***************************************************************************)
\* The feed_list / fetch_list argument of compile: a list of names, or None.
NoneArg == [is_none |-> TRUE, names |-> <<>>]
ListArg(names) == [is_none |-> FALSE, names |-> names]

\* framework.default_main_program(): a program nothing was added to.
default_main_program == [ops |-> <<>>, vars |-> {"x", "out"}]

\* IpuCompiledProgram.__init__ with a Program and an IpuStrategy: the custom
\* op names are copied from the strategy as it is at construction.
\* program is None (the default main program is taken) or a Program; any
\* other object raises TypeError before an attribute is set. With
\* ipu_strategy None a default IpuStrategy() is created (which registers
\* the patch in dynamic mode) and assigned, and the next statement reads
\* has_custom_ops of the argument, None, which raises AttributeError.
IpuCompiledProgram_init(program_kind, ipu_strategy) ==
    LET arg == [program |-> program_kind, ipu_strategy |-> ipu_strategy]
    IN /\ IF program_kind \notin {NoneV, "Program"}
            THEN /\ ret' = Ret("IpuCompiledProgram", arg, "TypeError", NoneV)
                 /\ UNCHANGED <<icp, program, patches>>
          ELSE IF ipu_strategy = NoneV
            THEN /\ ret' = Ret("IpuCompiledProgram", arg, "AttributeError", NoneV)
                 /\ patches' = IF in_dynamic_mode
                                 THEN RegisterPatch(patches, "default")
                                 ELSE patches
                 /\ UNCHANGED <<icp, program>>
          ELSE /\ icp' = [constructed |-> TRUE,
                          custom_op_names |-> IF has_custom_ops
                                                THEN {custom_op_names[i] : i \in DOMAIN custom_op_names}
                                                ELSE {}]
               /\ program' = IF program_kind = NoneV THEN default_main_program ELSE program
               /\ ret' = Ret("IpuCompiledProgram", arg, NoRaise, NoneV)
               /\ UNCHANGED patches
       /\ UNCHANGED <<in_dynamic_mode, cpVars, strategyVars, graph, passlog,
                      caches, recent_key, cache_builds, threads, built_under>>

\* A slip that leaves the target flags as they are.
ClearTargets_Kept(ops) == ops

\* op.desc.set_is_target(False) on every operator of the global block.
ClearTargets(ops) == [i \in DOMAIN ops |-> Op(ops[i].type, FALSE)]

\* The indices of the feed and fetch operators, ascending.
RECURSIVE need_to_remove_op_index(_, _)
need_to_remove_op_index(ops, i) ==
    IF i > Len(ops) THEN <<>>
    ELSE IF ops[i].type \in {"feed", "fetch"}
      THEN <<i>> \o need_to_remove_op_index(ops, i + 1)
      ELSE need_to_remove_op_index(ops, i + 1)

\* Lines 1179-1194 of compile: the source program without its feed and fetch
\* operators and variables, no operator a target.
PruneProgram(prog) ==
    [prog EXCEPT !.ops = RemoveReversed(ClearTargets(prog.ops),
                                        need_to_remove_op_index(prog.ops, 1)),
                 !.vars = prog.vars \ {"feed", "fetch"}]

\* core.Graph(program.desc): the graph of the program, no pass applied yet.
Graph(prog) == [ops |-> prog.ops, passes |-> <<>>]

Stage(pass, sets) == [pass |-> pass, sets |-> sets]
Bind(param, arg) == [param |-> param, bound |-> ~arg.is_none]

\* The pipeline with the two leading passes of the forward graph swapped.
Pipeline_Swapped(is_training, custom_ops, feed_list, fetch_list) ==
    (IF is_training
       THEN <<Stage("optimizer_extract_pass", <<>>),
              Stage("optimizer_state_align_pass", <<>>)>>
       ELSE <<>>)
    \o <<Stage("infer_shape_pass", <<Bind("feed_list", feed_list)>>),
          Stage("forward_graph_extract_pass", <<>>),
          Stage("avg_shard_pass", <<>>),
          Stage("delete_scale_op_pass", <<>>)>>
    \o <<Stage("popart_canonicalization_pass",
               IF custom_ops # {} THEN <<Bind("custom_ops", ListArg(<<>>))>> ELSE <<>>)>>
    \o <<Stage("ipu_inplace_pass",
               <<Bind("feed_list", feed_list), Bind("fetch_list", fetch_list)>>),
          Stage("ipu_graph_builder_pass",
               <<Bind("feed_list", feed_list), Bind("fetch_list", fetch_list)>>),
          Stage("ipu_runtime_replacer_pass",
               <<Bind("feed_list", feed_list), Bind("fetch_list", fetch_list)>>)>>
    \o <<Stage("graph_to_program_pass", <<Bind("program", ListArg(<<>>))>>)>>

\* Lines 1197-1237 of compile: the passes in the order they are fetched, each
\* with the parameters set on it before it is applied.
Pipeline(is_training, custom_ops, feed_list, fetch_list) ==
    (IF is_training
       THEN <<Stage("optimizer_extract_pass", <<>>),
              Stage("optimizer_state_align_pass", <<>>)>>
       ELSE <<>>)
    \o <<Stage("forward_graph_extract_pass", <<>>),
          Stage("infer_shape_pass", <<Bind("feed_list", feed_list)>>),
          Stage("avg_shard_pass", <<>>),
          Stage("delete_scale_op_pass", <<>>)>>
    \o <<Stage("popart_canonicalization_pass",
               IF custom_ops # {} THEN <<Bind("custom_ops", ListArg(<<>>))>> ELSE <<>>)>>
    \o <<Stage("ipu_inplace_pass",
               <<Bind("feed_list", feed_list), Bind("fetch_list", fetch_list)>>),
          Stage("ipu_graph_builder_pass",
               <<Bind("feed_list", feed_list), Bind("fetch_list", fetch_list)>>),
          Stage("ipu_runtime_replacer_pass",
               <<Bind("feed_list", feed_list), Bind("fetch_list", fetch_list)>>)>>
    \o <<Stage("graph_to_program_pass", <<Bind("program", ListArg(<<>>))>>)>>

PassNames ==
    {"optimizer_extract_pass", "optimizer_state_align_pass",
     "forward_graph_extract_pass", "infer_shape_pass", "avg_shard_pass",
     "delete_scale_op_pass", "popart_canonicalization_pass", "ipu_inplace_pass",
     "ipu_graph_builder_pass", "ipu_runtime_replacer_pass", "graph_to_program_pass"}

\* The parameters a pass cannot run without.
RequiredParams(pass) ==
    CASE pass = "infer_shape_pass" -> {"feed_list"}
      [] pass \in {"ipu_inplace_pass", "ipu_graph_builder_pass",
                   "ipu_runtime_replacer_pass"} -> {"feed_list", "fetch_list"}
      [] pass = "graph_to_program_pass" -> {"program"}
      [] OTHER -> {}

\* The parameters that the set calls of a stage leave bound on its pass.
BoundParams(stage) ==
    {stage.sets[i].param : i \in {j \in DOMAIN stage.sets : stage.sets[j].bound}}

\* a_pass.apply(graph): the pass mutates the graph it is handed.
ApplyPass(g, pass) == [g EXCEPT !.passes = Append(@, pass)]

\* One record per a_pass.apply call: the pass, the parameters bound on it and
\* the passes the graph it was handed had already been through.
Applied(stage, g) == [pass |-> stage.pass, params |-> BoundParams(stage), seen |-> g.passes]

\* The stages run one after the other on the same graph. The run stops at the
\* first stage whose pass lacks a required parameter or whose apply raises
\* (fail names the pass that raises, if any).
RECURSIVE RunStages(_, _, _, _)
RunStages(stages, g, log, fail) ==
    IF stages = <<>> THEN [raised |-> NoRaise, graph |-> g, log |-> log]
    ELSE LET stage == Head(stages)
         IN IF ~(RequiredParams(stage.pass) \subseteq BoundParams(stage))
              THEN [raised |-> "MissingPassParameter", graph |-> g, log |-> log]
            ELSE IF stage.pass = fail
              THEN [raised |-> "PassError", graph |-> g, log |-> log]
            ELSE RunStages(Tail(stages), ApplyPass(g, stage.pass),
                           Append(log, Applied(stage, g)), fail)

Names(arg) == {arg.names[i] : i \in DOMAIN arg.names}

\* A slip that clears the flag on entry, before any pass has run.
NeedCompileAfterCompile_ClearedOnEntry(raised, need) == FALSE

\* self._ipu_strategy.need_compile = False is the last statement before the
\* return: a compile that raised has not reached it.
NeedCompileAfterCompile(raised, need) ==
    IF raised = NoRaise THEN FALSE ELSE need

\* hasattr(self._program, 'lr_scheduler')
HasScheduler(prog) == "lr_scheduler" \in DOMAIN prog

\* A learning-rate scheduler: the name of its variable, and lr_var.
Scheduler(var_name, lr_var) == [var_name |-> var_name, lr_var |-> lr_var]

\* A slip that hands the scheduler over without binding lr_var.
share_lr_scheduler_Unbound(prog) ==
    IF ~HasScheduler(prog) \/ prog.lr_scheduler.var_name \in prog.vars
      THEN [raised |-> NoRaise, program |-> prog]
      ELSE [raised |-> "KeyError", program |-> prog]

\* Lines 1240-1248: the scheduler object of the source program is attached
\* to the new program and its lr_var is set to global_block.vars[name] of the
\* source program, which raises KeyError for a name the block does not have.
\* The scheduler is one object: the source program sees the binding too.
share_lr_scheduler(prog) ==
    IF ~HasScheduler(prog) THEN [raised |-> NoRaise, program |-> prog]
    ELSE IF prog.lr_scheduler.var_name \notin prog.vars
      THEN [raised |-> "KeyError", program |-> prog]
    ELSE [raised |-> NoRaise,
          program |-> [prog EXCEPT !.lr_scheduler.lr_var = prog.lr_scheduler.var_name]]

\* IpuCompiledProgram.compile as a function of the state it reads: what it
\* leaves in the source program, the graph, the strategy's need_compile, and
\* what it returns or raises.
compile(self, prog, opts, need, feed_list, fetch_list, fail) ==
    LET pruned == PruneProgram(prog)
        run == RunStages(Pipeline(opts["is_training"], self.custom_op_names,
                                  feed_list, fetch_list),
                         Graph(pruned), <<>>, fail)
        shared == IF run.raised # NoRaise THEN [raised |-> run.raised, program |-> pruned]
                  ELSE share_lr_scheduler(pruned)
        source == shared.program
        raised == IF shared.raised # NoRaise THEN shared.raised
                  ELSE IF ~(Names(feed_list) \subseteq pruned.vars) THEN "ValueError"
                  ELSE NoRaise
        compiled == [ops |-> run.graph.ops, passes |-> run.graph.passes,
                     no_check_feed |-> Names(feed_list), org_program |-> source]
    IN [raised |-> raised,
        program |-> source,
        graph |-> run.graph,
        log |-> run.log,
        need_compile |-> NeedCompileAfterCompile(raised, need),
        result |-> IF raised # NoRaise
                     THEN [ops |-> <<>>, passes |-> <<>>,
                           no_check_feed |-> {}, org_program |-> source]
                   ELSE IF HasScheduler(source)
                     THEN compiled @@ [lr_scheduler |-> source.lr_scheduler]
                   ELSE compiled]

IpuCompiledProgram_compile(feed_list, fetch_list, fail) ==
    /\ icp.constructed
    /\ \E c \in {compile(icp, program, options, need_compile, feed_list, fetch_list, fail)} :
          /\ program' = c.program
          /\ graph' = c.graph
          /\ passlog' = c.log
          /\ need_compile' = c.need_compile
          /\ ret' = Ret("compile", <<feed_list, fetch_list, fail, program>>, c.raised, c.result)
    /\ UNCHANGED <<in_dynamic_mode, cacheVars, cpVars, options, has_custom_ops, custom_op_names, optimizer, icp>>

(***************************************************************************)
(* IpuDynamicPatcher: the patched ProgramCache.__getitem__ and              *)
(* LRScheduler.step                                                        *)
(***************************************************************************)
\* The ceiling imported from program_translator, scaled to the model's keys.
MAX_TRACED_PROGRAM_COUNT == 2

Item(is_cache_key, id, class_instance) ==
    [is_cache_key |-> is_cache_key, id |-> id, class_instance |-> class_instance]

\* item_id = hash(item): one fingerprint per cache key.
hash(item) == item.id

NoEntry == [serial |-> 0]
NoLookup == [entry |-> NoEntry, built |-> FALSE, warnings |-> {}]

\* The program _build_once traces for a key, with its feed and fetch names.
TracedProgram == [ops |-> <<Op("mul", FALSE)>>, vars |-> {"x", "out"}]

\* What the build of one lookup can run into, besides what the strategy
\* decides: the trace, a pass or the wrapper construction raising.
BuildOutcomes == {"ok", "trace_raises", "pass_raises", "wrapper_raises"}

\* Lines 535-545: _build_once, convert_concrete_program (which compiles the
\* traced program with a fresh IpuCompiledProgram) and partial_program_from.
\* serial numbers the artifact that a successful build returns.
Build(item, opts, optim, has_custom, custom_names, need, serial, outcome) ==
    IF outcome = "trace_raises"
      THEN [raised |-> "TraceError", need_compile |-> need, entry |-> NoEntry]
    ELSE IF opts["enable_fp16"] /\ ~item.class_instance
      THEN [raised |-> "AttributeError", need_compile |-> need, entry |-> NoEntry]
    ELSE IF opts["is_training"] /\ optim.kind = "None"
      THEN [raised |-> "AttributeError", need_compile |-> need, entry |-> NoEntry]
    ELSE LET self == [constructed |-> TRUE,
                      custom_op_names |-> IF has_custom
                                            THEN {custom_names[i] : i \in DOMAIN custom_names}
                                            ELSE {}]
             c == compile(self, TracedProgram, opts, need, ListArg(<<"x">>), ListArg(<<"out">>),
                          IF outcome = "pass_raises" THEN "infer_shape_pass" ELSE "none")
         IN IF c.raised # NoRaise
              THEN [raised |-> c.raised, need_compile |-> c.need_compile, entry |-> NoEntry]
            ELSE IF outcome = "wrapper_raises"
              THEN [raised |-> "WrapperError", need_compile |-> c.need_compile, entry |-> NoEntry]
            ELSE [raised |-> NoRaise, need_compile |-> c.need_compile,
                  entry |-> [serial |-> serial]]

\* A slip that looks at the cache only, never at the strategy.
GetterMustBuild_IgnoresNeedCompile(cachesV, need, item_id) ==
    item_id \notin DOMAIN cachesV

\* if item_id not in self._caches or ipu_strategy.need_compile:
GetterMustBuild(cachesV, need, item_id) ==
    item_id \notin DOMAIN cachesV \/ need

\* The two warnings raised before the build.
WarningsBeforeBuild(cachesV, need, item_id) ==
    (IF item_id \in DOMAIN cachesV THEN {"sync_weights"} ELSE {})
    \cup (IF DOMAIN cachesV # {} /\ ~need THEN {"multiple_caches"} ELSE {})

\* The values of the options outside the allow-list: what a compiled
\* artifact depends on and a change of lr does not invalidate.
NonExempt(opts) == [k \in OptionKeys \ recompile_white_list |-> opts[k]]

\* A slip that keeps the newest entry only.
Store_DropsOthers(cachesV, item_id, entry) == (item_id :> entry)

\* self._caches[item_id] = (concrete_program, partial_program)
Store(cachesV, item_id, entry) == (item_id :> entry) @@ cachesV

\* A slip that puts a placeholder under the fingerprint before the build.
CachesAfterBuild_StoredEarly(cachesV, item_id, b) ==
    Store(cachesV, item_id, b.entry)

\* Lines 535-545: the assignment to self._caches is reached only when
\* _build_once, convert_concrete_program and partial_program_from returned.
CachesAfterBuild(cachesV, item_id, b) ==
    IF b.raised = NoRaise THEN Store(cachesV, item_id, b.entry) ELSE cachesV

\* A slip that warns at the ceiling already.
WarningsAfterStore_AtCeiling(cachesV) ==
    IF Cardinality(DOMAIN cachesV) >= MAX_TRACED_PROGRAM_COUNT THEN {"too_many_traced"} ELSE {}

\* The warning past the soft ceiling, after the store.
WarningsAfterStore(cachesV) ==
    IF Cardinality(DOMAIN cachesV) > MAX_TRACED_PROGRAM_COUNT THEN {"too_many_traced"} ELSE {}

\* patch_getter run by a single caller, from the type check to the return.
patch_getter(item, outcome) ==
    /\ patches.getitem.kind = "patch"
    /\ IF ~item.is_cache_key
         THEN /\ ret' = Ret("__getitem__", item, "ValueError", NoLookup)
              /\ UNCHANGED <<caches, recent_key, cache_builds, need_compile, built_under>>
         ELSE /\ recent_key' = hash(item)
              /\ IF GetterMustBuild(caches, need_compile, hash(item))
                   THEN /\ cache_builds < MaxBuilds
                        /\ cache_builds' = cache_builds + 1
                        /\ \E b \in {Build(item, options, optimizer, has_custom_ops, custom_op_names,
                                            need_compile, cache_builds + 1, outcome)} :
                              /\ need_compile' = b.need_compile
                              /\ caches' = CachesAfterBuild(caches, hash(item), b)
                              /\ built_under' = IF b.raised = NoRaise
                                                  THEN (hash(item) :> NonExempt(options)) @@ built_under
                                                  ELSE built_under
                              /\ ret' = Ret("__getitem__", item, b.raised,
                                            [entry |-> IF b.raised = NoRaise THEN caches'[hash(item)] ELSE NoEntry,
                                             built |-> TRUE,
                                             warnings |-> WarningsBeforeBuild(caches, need_compile, hash(item))
                                                \cup (IF b.raised = NoRaise THEN WarningsAfterStore(caches') ELSE {})])
                   ELSE /\ ret' = Ret("__getitem__", item, NoRaise,
                                      [entry |-> caches[hash(item)], built |-> FALSE, warnings |-> {}])
                        /\ UNCHANGED <<caches, cache_builds, need_compile, built_under>>
    /\ UNCHANGED <<in_dynamic_mode, options, has_custom_ops, custom_op_names, optimizer,
                   ipuVars, threads, patches, cpVars>>

\* A slip that files the rate under the optimizer's key.
StepOptions_LearningRate(last_lr) == ("learning_rate" :> last_lr)

\* The bag patch_step hands to set_options: {"lr": self.last_lr}.
StepOptions(last_lr) == ("lr" :> last_lr)

\* patch_step: the original step, which leaves last_lr on the scheduler, then
\* ipu_strategy.set_options({"lr": self.last_lr}).
patch_step(last_lr) ==
    /\ patches.step.kind = "patch"
    /\ do_set_options(StepOptions(last_lr))
    /\ ret' = Ret("LRScheduler.step", last_lr, NoRaise, NoneV)
    /\ UNCHANGED <<in_dynamic_mode, cacheVars, cpVars, has_custom_ops, custom_op_names, optimizer, ipuVars>>

\* The same getter run by concurrent callers: no lock is taken, so callers
\* interleave between its statements.
Idle == [pc |-> "idle", item |-> Item(TRUE, "none", FALSE), entry |-> NoEntry,
         raised |-> NoRaise, val |-> NoEntry]

getter_call(t, item) ==
    /\ patches.getitem.kind = "patch"
    /\ threads[t].pc = "idle"
    /\ IF ~item.is_cache_key
         THEN /\ threads' = [threads EXCEPT ![t] = [@ EXCEPT !.pc = "done", !.item = item,
                                                            !.raised = "ValueError"]]
              /\ UNCHANGED recent_key
         ELSE /\ threads' = [threads EXCEPT ![t] = [@ EXCEPT !.pc = "check", !.item = item]]
              /\ recent_key' = hash(item)
    /\ UNCHANGED <<in_dynamic_mode, strategyVars, ipuVars, caches, cache_builds, cpVars, ret,
                   patches, built_under>>

getter_check(t) ==
    /\ threads[t].pc = "check"
    /\ threads' = [threads EXCEPT ![t].pc =
                      IF GetterMustBuild(caches, need_compile, hash(threads[t].item))
                        THEN "build" ELSE "return"]
    /\ UNCHANGED <<in_dynamic_mode, strategyVars, ipuVars, caches, recent_key, cache_builds, cpVars, ret,
                   patches, built_under>>

getter_build(t, outcome) ==
    /\ threads[t].pc = "build"
    /\ cache_builds < MaxBuilds
    /\ cache_builds' = cache_builds + 1
    /\ \E b \in {Build(threads[t].item, options, optimizer, has_custom_ops, custom_op_names,
                        need_compile, cache_builds + 1, outcome)} :
          /\ need_compile' = b.need_compile
          /\ threads' = [threads EXCEPT ![t] =
                            IF b.raised = NoRaise
                              THEN [@ EXCEPT !.pc = "store", !.entry = b.entry]
                              ELSE [@ EXCEPT !.pc = "done", !.raised = b.raised]]
    /\ UNCHANGED <<in_dynamic_mode, options, has_custom_ops, custom_op_names, optimizer,
                   ipuVars, caches, recent_key, cpVars, ret, patches, built_under>>

getter_store(t) ==
    /\ threads[t].pc = "store"
    /\ caches' = Store(caches, hash(threads[t].item), threads[t].entry)
    /\ threads' = [threads EXCEPT ![t].pc = "return"]
    /\ built_under' = (hash(threads[t].item) :> NonExempt(options)) @@ built_under
    /\ UNCHANGED <<in_dynamic_mode, strategyVars, ipuVars, recent_key, cache_builds, cpVars, ret,
                   patches>>

getter_return(t) ==
    /\ threads[t].pc = "return"
    /\ threads' = [threads EXCEPT ![t] = [@ EXCEPT !.pc = "done",
                                                   !.val = caches[hash(threads[t].item)]]]
    /\ UNCHANGED <<in_dynamic_mode, strategyVars, ipuVars, caches, recent_key, cache_builds, cpVars, ret,
                   patches, built_under>>

(***************************************************************************)
(* Inputs                                                                  *)
(***************************************************************************)
LrValues == {1, 2}
CustomOpNames == {"custom_relu"}
Optimizers == {[kind |-> "float", lr |-> 2], [kind |-> "Tensor", lr |-> 1]}

\* Option bags handed to set_options: empty, lr alone, one other option alone
\* and together with lr.
OtherBags == {("enable_manual_shard" :> TRUE), ("is_dynamic" :> FALSE)}
OptionBags ==
    {<<>>} \cup {("lr" :> v) : v \in LrValues} \cup OtherBags
    \cup {b @@ ("lr" :> 2) : b \in OtherBags}

OpTypes == {"feed", "fetch", "mul"}
OpsOfLen(n) == [1..n -> {Op(t, t # "feed") : t \in OpTypes}]
VarsOf(ops) ==
    {"x", "out"} \cup {ops[i].type : i \in {j \in DOMAIN ops : ops[j].type \in {"feed", "fetch"}}}
Programs == {[ops |-> ops, vars |-> VarsOf(ops)] : ops \in UNION {OpsOfLen(n) : n \in 0..MaxOps}}

\* Programs an optimizer has put a learning-rate scheduler on: one whose
\* variable is in the global block, one whose variable is not.
SchedulerPrograms ==
    {[ops |-> <<Op("feed", FALSE), Op("mul", TRUE)>>, vars |-> {"x", "out", "feed", "lr_0"},
      lr_scheduler |-> Scheduler(name, NoneV)] : name \in {"lr_0", "lr_1"}}

Threads == {"caller1", "caller2"}
CacheKeys == {Item(TRUE, "key1", TRUE), Item(TRUE, "key2", FALSE), Item(TRUE, "key3", TRUE)}
Items == CacheKeys \cup {Item(FALSE, "str", FALSE)}

FeedLists == {NoneArg, ListArg(<<"x">>), ListArg(<<"ghost">>)}
FetchLists == {NoneArg, ListArg(<<"out">>)}
NoPass == "none"

(***************************************************************************)
(* Specifications                                                          *)
(***************************************************************************)
InitStrategy ==
    /\ options = DefaultOptions
    /\ need_compile = TRUE
    /\ has_custom_ops = FALSE
    /\ custom_op_names = <<>>
    /\ optimizer = NoOptimizer

InitCache ==
    /\ caches = <<>>
    /\ recent_key = NoneV
    /\ cache_builds = 0
    /\ threads = [t \in Threads |-> Idle]
    /\ patches = IF in_dynamic_mode THEN RegisterPatch(Unpatched, "strategy1") ELSE Unpatched
    /\ built_under = <<>>

InitCp ==
    /\ cp = CompiledProgram_init(NoneV)
    /\ builds = 0

InitIpu ==
    /\ icp = [constructed |-> FALSE, custom_op_names |-> {}]
    /\ graph = [ops |-> <<>>, passes |-> <<>>]
    /\ passlog = <<>>

\* An IpuStrategy and its mutators, with compiles of one program in between.
InitS ==
    /\ in_dynamic_mode = TRUE
    /\ InitStrategy
    /\ InitCache
    /\ InitCp
    /\ icp = [constructed |-> TRUE, custom_op_names |-> {}]
    /\ graph = [ops |-> <<>>, passes |-> <<>>]
    /\ passlog = <<>>
    /\ program = [ops |-> <<Op("feed", FALSE), Op("mul", TRUE)>>, vars |-> {"x", "out", "feed"}]
    /\ ret = Ret("init", NoneV, NoRaise, NoneV)

NextS ==
    \/ \E bag \in OptionBags : set_options(bag)
    \/ \E n \in 1..2, shard \in BOOLEAN : set_graph_config(n, TRUE, 1, shard)
    \/ \E pipe \in BOOLEAN : set_pipelining_config(pipe, 1, FALSE, 1)
    \/ \E fp16 \in BOOLEAN : set_precision_config(fp16)
    \/ \E name \in CustomOpNames : add_custom_op(name)
    \/ \E opt \in Optimizers : set_optimizer(opt)
    \/ IpuCompiledProgram_compile(ListArg(<<"x">>), ListArg(<<"out">>), NoPass)

SpecStrategy == InitS /\ [][NextS]_vars

\* The structural options of an IpuStrategy: the two guarded setters with any
\* device count (0 stands for the counts below 1) and any pipelining
\* arguments, set_options on the same options, and compiles in between.
NumIpus == {0, 1, 2}
AccumulationFactors == {1, 2}
StructuralBags ==
    {("enable_manual_shard" :> TRUE), ("num_ipus" :> 1), ("enable_pipelining" :> TRUE)}

NextG ==
    \/ \E n \in NumIpus, shard \in BOOLEAN : set_graph_config(n, TRUE, 1, shard)
    \/ \E pipe \in BOOLEAN, acc \in BOOLEAN, factor \in AccumulationFactors :
          set_pipelining_config(pipe, 1, acc, factor)
    \/ \E bag \in StructuralBags : set_options(bag)
    \/ IpuCompiledProgram_compile(ListArg(<<"x">>), ListArg(<<"out">>), NoPass)

SpecGuards == InitS /\ [][NextG]_vars

\* IpuCompiledProgram: construction and compile on any small program, with
\* the strategy changes the pipeline depends on. A compile is called with any
\* feed and fetch list, or with lists that are in order and a pass that
\* raises.
InitI ==
    /\ in_dynamic_mode = FALSE
    /\ InitStrategy
    /\ InitCache
    /\ InitCp
    /\ InitIpu
    /\ program \in Programs \cup SchedulerPrograms
    /\ ret = Ret("init", NoneV, NoRaise, NoneV)

NextI ==
    \/ \E t \in BOOLEAN : set_options(("is_training" :> t))
    \/ \E name \in CustomOpNames : add_custom_op(name)
    \/ IpuCompiledProgram_init("Program", "IpuStrategy")
    \/ \E feed_list \in FeedLists, fetch_list \in FetchLists :
          IpuCompiledProgram_compile(feed_list, fetch_list, NoPass)
    \/ \E fail \in PassNames :
          IpuCompiledProgram_compile(ListArg(<<"x">>), ListArg(<<"out">>), fail)

SpecIpu == InitI /\ [][NextI]_vars

\* Dynamic mode with the getter patched in: lookups by one caller at a time,
\* between them changes of the strategy and scheduler steps.
Init ==
    /\ in_dynamic_mode = TRUE
    /\ InitStrategy
    /\ InitCache
    /\ InitCp
    /\ InitIpu
    /\ program = [ops |-> <<>>, vars |-> {}]
    /\ ret = Ret("init", NoneV, NoRaise, NoneV)

Next ==
    \/ \E item \in Items, outcome \in BuildOutcomes : patch_getter(item, outcome)
    \/ \E bag \in {("is_training" :> FALSE), ("enable_fp16" :> TRUE), ("lr" :> 2)} : set_options(bag)
    \/ set_optimizer([kind |-> "float", lr |-> 2])
    \/ \E last_lr \in LrValues : patch_step(last_lr)

Spec == Init /\ [][Next]_vars

\* Two callers, each looking one key up once, on a strategy whose optimizer
\* has been set; their steps interleave freely.
InitConc ==
    /\ in_dynamic_mode = TRUE
    /\ options = core_set_options(DefaultOptions, parse_optimizer([kind |-> "float", lr |-> 2]).attrs)
    /\ need_compile = TRUE
    /\ has_custom_ops = FALSE
    /\ custom_op_names = <<>>
    /\ optimizer = [kind |-> "float", lr |-> 2]
    /\ InitCache
    /\ InitCp
    /\ InitIpu
    /\ program = [ops |-> <<>>, vars |-> {}]
    /\ ret = Ret("init", NoneV, NoRaise, NoneV)

NextConc ==
    \/ \E t \in Threads, item \in Items : getter_call(t, item)
    \/ \E t \in Threads : getter_check(t)
    \/ \E t \in Threads, outcome \in BuildOutcomes : getter_build(t, outcome)
    \/ \E t \in Threads : getter_store(t)
    \/ \E t \in Threads : getter_return(t)

SpecConc == InitConc /\ [][NextConc]_vars

\* One CompiledProgram: _with_inference_optimize and _compile calls with any
\* scope and place, None included.
Scopes == {NoneV, "scope1", "scope2"}
Places == {NoneV, "CPUPlace", "CUDAPlace0"}
InferConfigs == {"NativeConfig", "AnalysisConfig", "dict"}
SharedFrom == {NoneV, "shared_without_executor", "shared_with_executor"}

InitC ==
    /\ in_dynamic_mode = FALSE
    /\ InitStrategy
    /\ InitCache
    /\ InitIpu
    /\ program = [ops |-> <<>>, vars |-> {}]
    /\ \E share \in SharedFrom : cp = CompiledProgram_init(share)
    /\ builds = 0
    /\ ret = Ret("init", NoneV, NoRaise, NoneV)

NextC ==
    \/ \E config \in InferConfigs : with_inference_optimize(config)
    \/ \E scope \in Scopes, place \in Places, capturing \in BOOLEAN :
          compile_cp(scope, place, capturing)

SpecCompiled == InitC /\ [][NextC]_vars

\* CompiledProgram from construction on: any accepted or refused input, then
\* _with_inference_optimize and _compile; or else the construction of an
\* IpuCompiledProgram from any kind of input. A session builds one of the
\* two.
MaxNodes == 3

PersistableNodes ==
    {Node(TRUE, TRUE, TRUE, FALSE, name) : name \in {"fc_w", "fc_b", "emb"}}
OtherNodes ==
    {Node(TRUE, TRUE, TRUE, TRUE, "rng"), Node(TRUE, TRUE, FALSE, FALSE, "x"),
     Node(TRUE, FALSE, FALSE, FALSE, "ctrl"), Node(FALSE, FALSE, FALSE, FALSE, "mul")}

\* The nodes of a graph in the order graph.nodes() yields them: persistable
\* value nodes in any order and with repeated names, in front of them at
\* most one node of another sort.
NodeLists ==
    {pre \o nodes : pre \in {<<>>} \cup {<<n>> : n \in OtherNodes},
                    nodes \in UNION {[1..n -> PersistableNodes] : n \in 0..MaxNodes}}

\* block.vars of a program: emb is distributed, fc_b is not in the block.
BlockVars == ("fc_w" :> FALSE) @@ ("emb" :> TRUE) @@ ("rng" :> FALSE) @@ ("x" :> FALSE)

Input(kind, ops, nodes) == [kind |-> kind, ops |-> ops, nodes |-> nodes, block_vars |-> BlockVars]

DriverInputs ==
    {Input("Program", ops, <<>>) : ops \in UNION {OpsOfLen(n) : n \in 0..MaxOps}}
    \cup {Input("Graph", ops, <<>>) : ops \in UNION {OpsOfLen(n) : n \in 0..MaxOps}}
    \cup {Input(kind, <<Op("mul", TRUE)>>, nodes) : kind \in {"Program", "Graph"}, nodes \in NodeLists}
    \cup {Input(kind, <<>>, <<>>) : kind \in {NoneV, "str"}}

IpuInputKinds == {NoneV, "Program", "Graph", "str"}

InitD ==
    /\ in_dynamic_mode = FALSE
    /\ InitStrategy
    /\ InitCache
    /\ InitIpu
    /\ program = [ops |-> <<>>, vars |-> {}]
    /\ cp = NoCompiledProgram
    /\ builds = 0
    /\ ret = Ret("init", NoneV, NoRaise, NoneV)

NextD ==
    \/ ~icp.constructed /\ \E input \in DriverInputs : CompiledProgram_construct(input)
    \/ cp # NoCompiledProgram /\ with_inference_optimize("AnalysisConfig")
    \/ /\ cp # NoCompiledProgram
       /\ \E scope \in {NoneV, "scope1"}, place \in {NoneV, "CPUPlace"}, capturing \in BOOLEAN :
             compile_cp(scope, place, capturing)
    \/ /\ cp = NoCompiledProgram
       /\ \E kind \in IpuInputKinds, ipu_strategy \in {"IpuStrategy", NoneV} :
             IpuCompiledProgram_init(kind, ipu_strategy)

SpecDriver == InitD /\ [][NextD]_vars

\* Registrations of the patch by either of two strategies, and releases. In
\* dynamic mode the first strategy has registered on construction.
Strategies == {"strategy1", "strategy2"}

InitP ==
    /\ in_dynamic_mode \in BOOLEAN
    /\ InitStrategy
    /\ InitCache
    /\ InitCp
    /\ InitIpu
    /\ program = [ops |-> <<>>, vars |-> {}]
    /\ ret = Ret("init", NoneV, NoRaise, NoneV)

NextP ==
    \/ \E ipu_strategy \in Strategies : register_patch(ipu_strategy)
    \/ release_patch

SpecPatch == InitP /\ [][NextP]_vars

\* Lookups of the cache keys between set_options calls on options outside
\* the allow-list, on a strategy whose optimizer has been set.
NextO ==
    \/ \E item \in CacheKeys : patch_getter(item, "ok")
    \/ \E bag \in {("micro_batch_size" :> 2), ("enable_fp16" :> TRUE), ("lr" :> 1)} : set_options(bag)

SpecCacheOptions == InitConc /\ [][NextO]_vars

(***************************************************************************)
(* Claims                                                                  *)
(***************************************************************************)
IsPrefix(s, t) == Len(s) <= Len(t) /\ s = SubSeq(t, 1, Len(s))

\* C1: a lookup of a cache key whose fingerprint has an entry while
\* need_compile is false returns that entry and runs no build; any other
\* lookup runs the build once and, when the build returns, stores its new
\* artifact under the fingerprint and returns it.
C1_LookupReturnsOrBuildsOnce ==
    [][(ret'.op = "__getitem__" /\ ret'.arg.is_cache_key) =>
         IF hash(ret'.arg) \in DOMAIN caches /\ ~need_compile
           THEN /\ ret'.raised = NoRaise
                /\ ret'.val.entry = caches[hash(ret'.arg)]
                /\ cache_builds' = cache_builds /\ caches' = caches
           ELSE /\ cache_builds' = cache_builds + 1
                /\ ret'.raised = NoRaise =>
                      /\ hash(ret'.arg) \in DOMAIN caches'
                      /\ caches'[hash(ret'.arg)] = [serial |-> cache_builds']
                      /\ ret'.val.entry = caches'[hash(ret'.arg)]]_vars

\* C1 witness: a key that had an entry was looked up while need_compile was
\* true, and the lookup rebuilt and returned the new artifact.
C1_Witness ==
    /\ ret.op = "__getitem__" /\ ret.raised = NoRaise
    /\ ret.val.built /\ "sync_weights" \in ret.val.warnings
    /\ ret.val.entry = caches[hash(ret.arg)]

\* C2: two callers that looked the same fingerprint up on an empty cache and
\* both returned have run one build between them and hold the same artifact.
C2_ConcurrentLookupsBuildOnce ==
    (/\ \A t \in Threads : threads[t].pc = "done" /\ threads[t].raised = NoRaise
     /\ \A t, u \in Threads : hash(threads[t].item) = hash(threads[u].item))
    => (/\ cache_builds = 1
        /\ \A t, u \in Threads : threads[t].val = threads[u].val)

\* C3: once compiled, a _compile call with the bound scope and the bound
\* place returns the same object, leaves every attribute (the executor
\* included) as it was and runs no build: the build count stays 1.
C3_SameScopeAndPlaceIsNoOp ==
    [][(cp.compiled /\ ret'.op = "_compile"
          /\ ret'.arg[1] = cp.scope /\ ret'.arg[2] = cp.place) =>
         (ret'.raised = NoRaise /\ ret'.val = "self" /\ cp' = cp
            /\ builds = 1 /\ builds' = 1)]_vars

\* C3 witness: a compiled program with an executor was compiled again with
\* its own scope and place.
C3_Witness ==
    /\ ret.op = "_compile" /\ ret.arg[1] = cp.scope /\ ret.arg[2] = cp.place /\ ret.arg[3]
    /\ ret.raised = NoRaise /\ cp.executor # NoExecutor /\ cp.scope # NoneV

\* C4 as stated: once compiled, a _compile call whose scope or place differs
\* from the bound one raises and changes nothing.
C4_DifferentScopeOrPlaceRaises ==
    [][(cp.compiled /\ ret'.op = "_compile"
          /\ (ret'.arg[1] # cp.scope \/ ret'.arg[2] # cp.place)) =>
         (ret'.raised # NoRaise /\ cp' = cp)]_vars

\* C4 amended: once compiled, a _compile call that names a scope (not None)
\* other than the bound one, or a place (not None) other than the bound one,
\* raises and leaves scope, place, executor and every other attribute as
\* they were.
C4_GivenDifferentScopeOrPlaceRaises ==
    [][(cp.compiled /\ ret'.op = "_compile"
          /\ (ret'.arg[1] \notin {NoneV, cp.scope} \/ ret'.arg[2] \notin {NoneV, cp.place})) =>
         (ret'.raised # NoRaise /\ cp' = cp /\ builds' = builds)]_vars

\* C4 witness: a program compiled with one place was compiled again with
\* its own scope and another place, and the call raised.
C4_Witness ==
    /\ ret.op = "_compile" /\ ret.arg[3] /\ ret.raised = "ValueError"
    /\ ret.arg[1] = cp.scope /\ ret.arg[2] \notin {NoneV, cp.place}
    /\ cp.executor # NoExecutor

\* C5: set_options on a bag whose only key is lr, or on an empty bag, leaves
\* need_compile as it was; on a bag with any other key it leaves it true.
C5_SetOptionsAllowList ==
    [][ret'.op = "set_options" =>
         need_compile' = (IF ret'.arg \subseteq {"lr"} THEN need_compile ELSE TRUE)]_vars

\* C5 witness: lr alone was set after a successful compile and the flag is
\* still false.
C5_Witness == ret.op = "set_options" /\ ret.arg = {"lr"} /\ ~need_compile

\* C6: every operation that changes the value of an option other than lr
\* leaves need_compile true, whichever mutator made the change.
C6_EveryMutatorForcesRecompile ==
    [][(\E k \in OptionKeys \ {"lr"} : options'[k] # options[k]) => need_compile']_vars

\* C7: compile clears need_compile exactly when it returns a program; a
\* compile that raises leaves the flag as it was.
C7_NeedCompileClearedOnSuccessOnly ==
    [][ret'.op = "compile" =>
         need_compile' = (IF ret'.raised = NoRaise THEN FALSE ELSE need_compile)]_vars

\* C7 witness: a compile raised while the flag was false from an earlier
\* success, and the flag is still false.
C7_Witness == ret.op = "compile" /\ ret.raised = "PassError" /\ ~need_compile

ForwardOrder ==
    <<"forward_graph_extract_pass", "infer_shape_pass", "avg_shard_pass",
      "delete_scale_op_pass", "popart_canonicalization_pass", "ipu_inplace_pass",
      "ipu_graph_builder_pass", "ipu_runtime_replacer_pass", "graph_to_program_pass">>
ExpectedOrder(is_training) ==
    IF is_training
      THEN <<"optimizer_extract_pass", "optimizer_state_align_pass">> \o ForwardOrder
      ELSE ForwardOrder
AppliedNames == [i \in DOMAIN passlog |-> passlog[i].pass]

\* C8: the passes of a compile are applied in the fixed order, the two
\* optimizer passes first and only when is_training, each pass once and each
\* on the graph as the passes before it left it; a compile that got through
\* the pipeline applied all of them.
C8_PassOrder ==
    ret.op = "compile" =>
        /\ IsPrefix(AppliedNames, ExpectedOrder(options["is_training"]))
        /\ ret.raised \in {NoRaise, "ValueError"} =>
               AppliedNames = ExpectedOrder(options["is_training"])
        /\ \A i \in DOMAIN passlog : passlog[i].seen = SubSeq(AppliedNames, 1, i - 1)

\* C8 witness: an inference compile ran the nine forward passes and returned.
C8_Witness ==
    /\ ret.op = "compile" /\ ret.raised = NoRaise
    /\ ~options["is_training"] /\ Len(passlog) = 9

\* C9: every pass is applied with its required parameters set: feed_list on
\* infer_shape_pass, feed_list and fetch_list on the three IPU passes,
\* program on graph_to_program_pass, and custom_ops on
\* popart_canonicalization_pass whenever the strategy has custom ops.
C9_ParamsSetBeforeApply ==
    ret.op = "compile" =>
        \A i \in DOMAIN passlog :
            /\ RequiredParams(passlog[i].pass) \subseteq passlog[i].params
            /\ (passlog[i].pass = "popart_canonicalization_pass" /\ has_custom_ops)
                  => "custom_ops" \in passlog[i].params

\* C10: a compile that fails for a missing required parameter has applied
\* no pass and leaves the source program and the graph as they were.
C10_MissingParameterFailsFast ==
    [][(ret'.op = "compile" /\ ret'.raised = "MissingPassParameter") =>
         (passlog' = <<>> /\ program' = program /\ graph' = graph)]_vars

\* C11: set_graph_config with num_ipus = 1 and enable_manual_shard = True
\* raises, and the failed call changes no option value and leaves
\* need_compile as it was.
C11_ShardOnOneIpuRaises ==
    [][(ret'.op = "set_graph_config" /\ ret'.arg = <<1, TRUE>>) =>
         (ret'.raised # NoRaise /\ options' = options /\ need_compile' = need_compile)]_vars

\* C11 witness: the call was refused on a strategy that had been reconfigured
\* and compiled, and both the options and the cleared flag are as they were.
C11_Witness ==
    /\ ret.op = "set_graph_config" /\ ret.arg = <<1, TRUE>> /\ ret.raised = "RuntimeError"
    /\ ~need_compile /\ options["num_ipus"] = 2

\* C12: in every state reachable through set_graph_config,
\* set_pipelining_config and set_options, enable_manual_shard = true implies
\* num_ipus > 1.
C12_ManualShardImpliesSeveralIpus ==
    options["enable_manual_shard"] => options["num_ipus"] > 1

\* C13: set_pipelining_config with enable_pipelining = True while the option
\* enable_manual_shard is false raises, and the failed call changes no option
\* value and leaves need_compile as it was.
C13_PipeliningWithoutShardRaises ==
    [][(ret'.op = "set_pipelining_config" /\ ret'.arg[1] /\ ~options["enable_manual_shard"]) =>
         (ret'.raised # NoRaise /\ options' = options /\ need_compile' = need_compile)]_vars

\* C13 witness: the call was refused, with accumulation arguments that differ
\* from the stored ones, after a compile had cleared the flag.
C13_Witness ==
    /\ ret.op = "set_pipelining_config" /\ ret.arg[1] /\ ret.raised = "RuntimeError"
    /\ ret.arg[4] # options["accumulation_factor"]
    /\ ~options["enable_manual_shard"] /\ ~need_compile

\* C14: in every state reachable through set_graph_config,
\* set_pipelining_config and set_options, enable_pipelining = true implies
\* enable_manual_shard = true.
C14_PipeliningImpliesManualShard ==
    options["enable_pipelining"] => options["enable_manual_shard"]

\* C15: set_pipelining_config with enable_pipelining = False and either
\* enable_gradient_accumulation = True or accumulation_factor > 1 raises and
\* stores none of its arguments.
C15_AccumulationWithoutPipeliningRaises ==
    [][(ret'.op = "set_pipelining_config" /\ ~ret'.arg[1]
          /\ (ret'.arg[3] \/ ret'.arg[4] > 1)) =>
         (ret'.raised # NoRaise /\ options' = options)]_vars

StrictlyAscending(names) ==
    \A i \in 1..(Len(names) - 1) : Before(names[i], names[i + 1])

\* C16: the persistable-variable list a _compile hands to the executor it
\* creates is strictly ascending by name: sorted, and no name twice, whatever
\* the order of the nodes and however often a name occurs on them.
C16_PersistableVarsStrictlyAscending ==
    [][(ret'.op = "_compile" /\ ~ret'.arg[3] /\ ret'.raised = NoRaise /\ ~cp'.is_inference) =>
         StrictlyAscending(cp'.persistable_vars)]_vars

\* C16 witness: a program whose nodes carried fc_w before fc_b, and fc_w
\* twice, was compiled and the list is fc_b, fc_w.
C16_Witness ==
    /\ ret.op = "_compile" /\ ret.raised = NoRaise /\ cp # NoCompiledProgram
    /\ cp.executor[1] = "CompiledProgram"
    /\ Len(cp.graph.nodes) = 3
    /\ cp.graph.nodes[1].name = "fc_w" /\ cp.graph.nodes[2].name = "fc_b"
    /\ cp.graph.nodes[3].name = "fc_w"
    /\ cp.persistable_vars = <<"fc_b", "fc_w">>

\* The names the list is to hold: the value nodes flagged persistable, not of
\* RAW type, and not marked distributed in the block of the program (a raw
\* Graph has no block that could mark one).
ExpectedPersistable(self) ==
    {self.graph.nodes[i].name : i \in
        {j \in DOMAIN self.graph.nodes :
            /\ self.graph.nodes[j].is_var /\ self.graph.nodes[j].has_var
            /\ self.graph.nodes[j].persistable /\ ~self.graph.nodes[j].raw
            /\ (self.program.is_none
                  \/ self.graph.nodes[j].name \notin DOMAIN self.program.block_vars
                  \/ ~self.program.block_vars[self.graph.nodes[j].name])}}

\* C17: for a Program and for a raw Graph alike, the list handed to the
\* executor holds exactly the names of the value nodes that are persistable,
\* not RAW and not marked distributed.
C17_PersistableVarsExact ==
    [][(ret'.op = "_compile" /\ ~ret'.arg[3] /\ ret'.raised = NoRaise /\ ~cp'.is_inference) =>
         {cp'.persistable_vars[i] : i \in DOMAIN cp'.persistable_vars} = ExpectedPersistable(cp')]_vars

\* C18: while CUDA graph capture is active, a _compile of a program that is
\* neither compiled nor an inference program raises and creates no executor.
C18_CaptureRefusesFreshCompile ==
    [][(ret'.op = "_compile" /\ ret'.arg[4] /\ ~cp.compiled /\ ~cp.is_inference) =>
         (ret'.raised # NoRaise /\ cp'.executor = NoExecutor /\ cp.executor = NoExecutor)]_vars

\* C18 witness: the capture check itself refused a compile that had a scope
\* and a place, after the list of persistable variables was ready.
C18_Witness ==
    /\ ret.op = "_compile" /\ ret.arg[4] /\ ~ret.arg[3] /\ ret.raised = "RuntimeError"
    /\ cp # NoCompiledProgram /\ cp.executor = NoExecutor
    /\ cp.persistable_vars # <<>>

NotFeed(op) == op.type # "feed"

\* C19: construction from a Program leaves, in the program and in the graph
\* built from it, the operators that are not feed operators in their
\* original order, wherever and however many the feed operators were;
\* construction from a raw Graph keeps the graph as it is and records no
\* program.
C19_FeedOpsPruned ==
    [][(ret'.op = "CompiledProgram" /\ ret'.raised = NoRaise) =>
         IF ret'.arg.kind = "Program"
           THEN /\ cp'.program.ops = SelectSeq(ret'.arg.ops, NotFeed)
                /\ cp'.graph.ops = SelectSeq(ret'.arg.ops, NotFeed)
                /\ cp'.graph.nodes = ret'.arg.nodes
           ELSE /\ cp'.graph = [ops |-> ret'.arg.ops, nodes |-> ret'.arg.nodes]
                /\ cp'.program.is_none]_vars

\* C19 witness: a program of two adjacent feed operators was taken and no
\* operator is left.
C19_Witness ==
    /\ ret.op = "CompiledProgram" /\ ret.raised = NoRaise /\ ret.arg.kind = "Program"
    /\ Len(ret.arg.ops) = 2 /\ \A i \in 1..2 : ret.arg.ops[i].type = "feed"
    /\ cp # NoCompiledProgram /\ cp.graph.ops = <<>>

\* C20: CompiledProgram(x) for an x that is neither a Graph nor a Program
\* raises and leaves no CompiledProgram; IpuCompiledProgram(x) for a given x
\* that is not a Program raises and sets nothing (None, the omitted argument,
\* stands for the default main program).
C20_InvalidInputKindRaises ==
    [][/\ (ret'.op = "CompiledProgram" /\ ret'.arg.kind \notin {"Graph", "Program"}) =>
            (ret'.raised # NoRaise /\ cp' = NoCompiledProgram)
       /\ (ret'.op = "IpuCompiledProgram" /\ ret'.arg.program \notin {NoneV, "Program"}) =>
            (ret'.raised # NoRaise /\ icp' = icp /\ program' = program)]_vars

\* C20 witness: a string was handed to CompiledProgram and refused.
C20_Witness ==
    /\ ret.op = "CompiledProgram" /\ ret.arg.kind = "str" /\ ret.raised = "TypeError"
    /\ cp = NoCompiledProgram

\* C21: no step removes a fingerprint from the cache, and a lookup adds at
\* most the fingerprint it looked up: a rebuild of a fingerprint that has
\* an entry replaces that entry and leaves the count as it was.
C21_CacheNeverShrinks ==
    [][/\ DOMAIN caches \subseteq DOMAIN caches'
       /\ ret'.op = "__getitem__" /\ ret'.arg.is_cache_key =>
             /\ DOMAIN caches' \subseteq DOMAIN caches \cup {hash(ret'.arg)}
             /\ \A k \in DOMAIN caches \ {hash(ret'.arg)} : caches'[k] = caches[k]]_vars

\* C21 witness: with two fingerprints in the cache, one of them was rebuilt
\* and the cache still holds two.
C21_Witness ==
    /\ ret.op = "__getitem__" /\ ret.raised = NoRaise /\ ret.val.built
    /\ "sync_weights" \in ret.val.warnings
    /\ Cardinality(DOMAIN caches) = 2

\* C22: a lookup that built and stored an entry warns about the number of
\* traced programs exactly when the count after the store is above
\* MAX_TRACED_PROGRAM_COUNT; it returns the new entry and removes none.
C22_SoftCeilingWarns ==
    [][(ret'.op = "__getitem__" /\ ret'.raised = NoRaise /\ ret'.val.built) =>
         /\ ("too_many_traced" \in ret'.val.warnings)
               <=> (Cardinality(DOMAIN caches') > MAX_TRACED_PROGRAM_COUNT)
         /\ ret'.val.entry = caches'[hash(ret'.arg)]
         /\ ret'.val.entry.serial = cache_builds'
         /\ DOMAIN caches \subseteq DOMAIN caches']_vars

\* C22 witness: the store that took the cache past the ceiling warned and
\* returned its entry.
C22_Witness ==
    /\ ret.op = "__getitem__" /\ ret.raised = NoRaise
    /\ "too_many_traced" \in ret.val.warnings
    /\ Cardinality(DOMAIN caches) = MAX_TRACED_PROGRAM_COUNT + 1
    /\ ret.val.entry = caches[hash(ret.arg)]

\* C23: a lookup whose build raises (in the trace, in the conversion or in
\* the wrapper construction) leaves the cache as it was: no new fingerprint,
\* and an entry the fingerprint had is the one it still has.
C23_FailedBuildKeepsCache ==
    [][(ret'.op = "__getitem__" /\ ret'.raised # NoRaise) => caches' = caches]_vars

\* C23 witness: the rebuild of a fingerprint that had an entry raised in the
\* wrapper construction, and the fingerprint still has an entry.
C23_Witness ==
    /\ ret.op = "__getitem__" /\ ret.raised = "WrapperError" /\ ret.val.built
    /\ "sync_weights" \in ret.val.warnings
    /\ hash(ret.arg) \in DOMAIN caches

\* C24: the program a compile returns has org_program set to the source
\* program; if the source program has a learning-rate scheduler, the returned
\* program carries that scheduler, with lr_var bound to the variable of the
\* source program's global block that the scheduler names; if the source has
\* none, the returned program has none.
C24_HandoffState ==
    [][(ret'.op = "compile" /\ ret'.raised = NoRaise) =>
         /\ ret'.val.org_program = program'
         /\ program'.ops = PruneProgram(program).ops /\ program'.vars = PruneProgram(program).vars
         /\ HasScheduler(ret'.val) <=> HasScheduler(program)
         /\ HasScheduler(program) =>
               /\ ret'.val.lr_scheduler = program'.lr_scheduler
               /\ ret'.val.lr_scheduler.var_name = program.lr_scheduler.var_name
               /\ ret'.val.lr_scheduler.lr_var = program.lr_scheduler.var_name
               /\ ret'.val.lr_scheduler.lr_var \in program'.vars]_vars

\* C24 witness: a program with a scheduler on lr_0 was compiled and the
\* returned program has the scheduler with lr_var bound.
C24_Witness ==
    /\ ret.op = "compile" /\ ret.raised = NoRaise
    /\ HasScheduler(ret.arg[4]) /\ ret.arg[4].lr_scheduler.lr_var = NoneV
    /\ HasScheduler(ret.val) /\ ret.val.lr_scheduler.lr_var = "lr_0"
    /\ ret.val.org_program = program

NotFeedOrFetch(op) == op.type \notin {"feed", "fetch"}

\* C30: whatever else a compile does, it leaves the source program without
\* its feed and fetch operators and without the variables feed and fetch,
\* the remaining operators in their original order and none of them a
\* target; the graph the passes ran on was built from that program.
C30_BoundaryOpsRemoved ==
    [][ret'.op = "compile" =>
         /\ Len(program'.ops) = Len(SelectSeq(program.ops, NotFeedOrFetch))
         /\ \A i \in DOMAIN program'.ops :
               /\ program'.ops[i].type = SelectSeq(program.ops, NotFeedOrFetch)[i].type
               /\ ~program'.ops[i].is_target
         /\ program'.vars = program.vars \ {"feed", "fetch"}
         /\ graph'.ops = program'.ops]_vars

\* C30 witness: a program of a fetch operator followed by a target operator
\* was compiled and holds the second operator only, no longer a target.
C30_Witness ==
    /\ ret.op = "compile"
    /\ ret.arg[4].ops = <<Op("fetch", TRUE), Op("mul", TRUE)>> /\ "fetch" \in ret.arg[4].vars
    /\ program.ops = <<Op("mul", FALSE)>> /\ "fetch" \notin program.vars

\* C28: whenever a _compile call returns normally, the executor is set; a
\* first build that failed does not leave the object compiled and without
\* an executor for a later call to return.
C28_ReturnedCompileHasExecutor ==
    [][(ret'.op = "_compile" /\ ret'.raised = NoRaise) => cp'.executor # NoExecutor]_vars

\* C25: a release_patch that follows one or more register_patch calls, by
\* one strategy or by several, leaves ProgramCache.__getitem__ and
\* LRScheduler.step the original methods.
C25_ReleaseRestoresOriginals ==
    [][(ret'.op = "release_patch" /\ patches.patcher_cache # <<>>) =>
         (patches'.getitem = Original /\ patches'.step = Original)]_vars

\* C26: IpuCompiledProgram(program, ipu_strategy=None) with a valid program
\* returns an instance.
C26_DefaultStrategyWhenNone ==
    [][(ret'.op = "IpuCompiledProgram" /\ ret'.arg.program \in {NoneV, "Program"}
          /\ ret'.arg.ipu_strategy = NoneV) =>
         (ret'.raised = NoRaise /\ icp'.constructed)]_vars

\* C29: the entry a lookup returns was built under the values the options
\* outside the allow-list have now.
C29_ReturnedEntryIsCurrent ==
    [][(ret'.op = "__getitem__" /\ ret'.raised = NoRaise) =>
         built_under'[hash(ret'.arg)] = NonExempt(options')]_vars

\* C31: a call of the patched LRScheduler.step sets the strategy's lr option
\* to the last_lr the original step left and changes nothing else: the other
\* options, need_compile and the cache stay as they were. So when
\* need_compile is false after a step, a lookup of a fingerprint that is in
\* the cache is a hit: it builds nothing and returns the stored entry.
C31_StepKeepsNeedCompile ==
    [][/\ ret'.op = "LRScheduler.step" =>
             /\ options' = [options EXCEPT !["lr"] = ret'.arg]
             /\ need_compile' = need_compile
             /\ caches' = caches
       /\ (/\ ret.op = "LRScheduler.step"
           /\ ~need_compile
           /\ ret'.op = "__getitem__"
           /\ ret'.arg.is_cache_key
           /\ hash(ret'.arg) \in DOMAIN caches) =>
             /\ ret'.raised = NoRaise
             /\ ~ret'.val.built
             /\ ret'.val.entry = caches[hash(ret'.arg)]
             /\ ~need_compile']_vars

\* A step after a successful build: the cache holds an entry, need_compile is
\* false and lr carries the rate of the step.
C31_Witness ==
    /\ ret.op = "LRScheduler.step"
    /\ ~need_compile
    /\ DOMAIN caches # {}
    /\ options["lr"] = ret.arg
    /\ ret.arg = 2

\* C32: _with_inference_optimize succeeds at most once per CompiledProgram.
\* A call on a program already marked as inference raises and a program once
\* marked keeps its mark and the config of the call that marked it, whatever
\* is called later; a call whose config is neither a NativeConfig nor an
\* AnalysisConfig raises and marks nothing, so a program not marked as
\* inference is still not marked; a call that returns was made on a program
\* not yet marked and stores its own config.
C32_InferenceOptimizeOnce ==
    [][/\ cp.is_inference => cp'.is_inference /\ cp'.infer_config = cp.infer_config
       /\ ret'.op = "_with_inference_optimize" =>
             /\ cp.is_inference => ret'.raised = "AssertionError"
             /\ ~IsInferConfig(ret'.arg) =>
                   /\ ret'.raised = "AssertionError"
                   /\ cp'.is_inference = cp.is_inference
                   /\ cp'.infer_config = cp.infer_config
             /\ ret'.raised = NoRaise =>
                   /\ ~cp.is_inference
                   /\ cp'.is_inference
                   /\ cp'.infer_config = ret'.arg]_vars

\* A second call with a config of the other accepted kind has raised, and the
\* config of the first call is still the stored one.
C32_Witness ==
    /\ ret.op = "_with_inference_optimize"
    /\ ret.arg = "AnalysisConfig"
    /\ ret.raised = "AssertionError"
    /\ cp.is_inference
    /\ cp.infer_config = "NativeConfig"

\* C33: once a lookup has set the recent key, the recent key is a fingerprint
\* that has an entry in the cache, also after a lookup whose build raised.
C33_RecentKeyHasEntry ==
    recent_key # NoneV => recent_key \in DOMAIN caches

====
